---------------------------- MODULE Spec2Model ----------------------------
(***************************************************************************)
(* FirebaseFilesystem (src/src/lib/firebase_filesystem.ts): a filesystem-  *)
(* shaped adapter over a flat-namespace bucket.  The bucket is the only    *)
(* state; every adapter operation is a translation into storage-client     *)
(* calls.  Strings are tuples of one-character strings, buffers are tuples *)
(* of byte values, JavaScript objects are functions from property names.   *)
(***************************************************************************)
EXTENDS Integers, Sequences, FiniteSets, TLC

VARIABLES
    bucket,     \* the bucket: objects [name, data] in the store's listing order
    writers,    \* one record per writeStreamToFile call in flight or settled
    lastOp,     \* the adapter operation that ran last, with its arguments
    ret,        \* what that operation returned (or how it failed)
    calls       \* the storage-client requests that operation issued

vars == <<bucket, writers, lastOp, ret, calls>>

(***************************************************************************)
(* JavaScript values                                                       *)
(***************************************************************************)
Undefined == "undefined"
Null == "null"

\* {} : an object with no own property (also what spreading undefined adds)
EmptyObject == [k \in {} |-> Undefined]

\* {...a, ...b}: later properties win
ObjectSpread(a, b) ==
    [k \in (DOMAIN a) \cup (DOMAIN b) |-> IF k \in DOMAIN b THEN b[k] ELSE a[k]]

\* o.k of an object: undefined when o has no such property
Prop(o, k) == IF k \in DOMAIN o THEN o[k] ELSE Undefined

\* tuples over S of length 0..n
SeqUpTo(S, n) == UNION {[1..k -> S] : k \in 0..n}

(***************************************************************************)
(* The bucket                                                              *)
(***************************************************************************)
Names(b) == {b[i].name : i \in DOMAIN b}

IndexOf(b, key) == CHOOSE i \in DOMAIN b : b[i].name = key

\* bucket.file(key).exists()
ObjectExists(b, key) == key \in Names(b)

\* the object's bytes, for a key that exists
ObjectData(b, key) == b[IndexOf(b, key)].data

\* a finished upload: the object is replaced in place, or added to the listing
PutObject(b, key, data) ==
    IF ObjectExists(b, key)
    THEN [b EXCEPT ![IndexOf(b, key)].data = data]
    ELSE Append(b, [name |-> key, data |-> data])

\* bucket.file(key).delete() of a key that exists
DeleteObject(b, key) ==
    LET i == IndexOf(b, key)
    IN  SubSeq(b, 1, i - 1) \o SubSeq(b, i + 1, Len(b))


(***************************************************************************)
(* Inputs of the stream operations                                         *)
(***************************************************************************)
MaxLen == 2                      \* longest payload, in one-byte chunks
Bytes == {65, 255}               \* "A", and a byte that is not valid UTF-8
Payloads == SeqUpTo(Bytes, MaxLen)
Writers == {"w1"}                \* writeStreamToFile calls followed step by step
StreamPaths == {<<"a">>, <<"b">>}
WriteOptions ==
    {EmptyObject, [resumable |-> TRUE],
     [contentType |-> "text/plain", resumable |-> TRUE]}
StreamOptions == {EmptyObject, [resumable |-> TRUE]}
Encodings == {Undefined, "utf8"}

NoOp == [op |-> "none"]
StreamEvent == [op |-> "event"]
NoWriter ==
    [path |-> <<>>, channel |-> EmptyObject,
     data |-> <<>>, sent |-> 0, received |-> <<>>,
     src |-> "none", dst |-> "none", promise |-> "none", clean |-> FALSE]

Buffer(bytes) == [type |-> "Buffer", bytes |-> bytes]
String(chars) == [type |-> "string", chars |-> chars]
Failure(kind) == [type |-> "error", kind |-> kind]
\* the value of a call whose body returns nothing
Void == [type |-> "undefined"]
Array(items) == [type |-> "Array", items |-> items]
Request(name, key, arg) == [request |-> name, key |-> key, arg |-> arg]
NoArgument == EmptyObject        \* a request that takes no argument
WholeBucket == <<>>              \* the key of a request made of the bucket itself

\* buffer.toString('utf8'): a byte that starts no valid sequence decodes to U+FFFD
BufferToStringUtf8(bytes) ==
    [i \in DOMAIN bytes |-> IF bytes[i] < 128 THEN bytes[i] ELSE 65533]

(***************************************************************************)
(* createWriteStream                                                       *)
(***************************************************************************)
\* variant: resumable: false as a default the caller's options override
CreateWriteStreamOptions_Default(opts) == ObjectSpread([resumable |-> FALSE], opts)

\* {...opts, resumable: false}
CreateWriteStreamOptions(opts) == ObjectSpread(opts, [resumable |-> FALSE])

\* the channel is handed to the caller, who writes and ends it
CreateWriteStream(file, opts) ==
    /\ lastOp' = [op |-> "createWriteStream", path |-> file, options |-> opts]
    /\ calls' = <<Request("createWriteStream", file, CreateWriteStreamOptions(opts))>>
    /\ ret' = [type |-> "Writable"]
    /\ UNCHANGED <<bucket, writers>>

(***************************************************************************)
(* writeStreamToFile: the write channel, the pipe, the completion promise  *)
(***************************************************************************)
\* {...options, resumable: false}
WriteStreamToFileOptions(options) == ObjectSpread(options, [resumable |-> FALSE])

\* awaitWriteFinish(writeStream): the promise settles on the destination's
\* first 'finish' (resolve) or 'error' (reject) event
AwaitWriteFinish(promise, event) ==
    IF promise # "pending" THEN promise
    ELSE IF event = "finish" THEN "resolved"
    ELSE IF event = "error" THEN "rejected"
    ELSE promise

\* variant: a promise that does not wait for the channel
ReturnedPromise_Resolved == "resolved"

\* the promise writeStreamToFile returns: awaitWriteFinish(writeStream), pending
\* until the channel emits
ReturnedPromise == AwaitWriteFinish("pending", "none")

\* what writeStreamToFile leaves behind when it returns: the channel is open on
\* path, the source is piped into it, the promise awaits the channel
StartedWrite(path, options, data) ==
    [path |-> path, channel |-> WriteStreamToFileOptions(options),
     data |-> data, sent |-> 0, received |-> <<>>,
     src |-> "flowing", dst |-> "open",
     promise |-> ReturnedPromise, clean |-> FALSE]

\* variant: a chunk taken from the source and not written
PipeOnData_Dropped(w) == [w EXCEPT !.sent = @ + 1]

\* stream.pipe(writeStream), source 'data': the chunk is written to the destination
PipeOnData(w) ==
    [w EXCEPT !.sent = @ + 1, !.received = Append(@, w.data[w.sent + 1])]

\* stream.pipe(writeStream), source 'end': the destination is ended
PipeOnEnd(w) == [w EXCEPT !.src = "ended", !.dst = "ending"]

\* stream.pipe(writeStream), source 'error': pipe installs no handler for it; the
\* destination is neither ended nor destroyed, and it emits nothing
PipeOnSourceError(w) == [w EXCEPT !.src = "errored"]

\* the destination's 'finish': the upload is complete
OnFinish(w) ==
    [w EXCEPT !.dst = "finished", !.promise = AwaitWriteFinish(@, "finish"),
              !.clean = TRUE]

\* the destination's 'error': the call is over, its streams are dropped
OnDestError(w) ==
    [NoWriter EXCEPT !.dst = "errored",
                     !.promise = AwaitWriteFinish(w.promise, "error")]

\* the object at key was replaced or deleted: writes resolved earlier no longer
\* describe it
Touch(ws, key) ==
    [v \in Writers |->
        IF ws[v].path = key THEN [ws[v] EXCEPT !.clean = FALSE] ELSE ws[v]]

WriteStreamToFile(w, path, options, data) ==
    /\ writers[w].promise \in {"none", "resolved", "rejected"}
    /\ writers' = [writers EXCEPT ![w] = StartedWrite(path, options, data)]
    /\ lastOp' = [op |-> "writeStreamToFile", path |-> path, options |-> options]
    /\ calls' = <<Request("createWriteStream", path, writers'[w].channel)>>
    /\ ret' = [type |-> "Promise"]
    /\ UNCHANGED bucket

SourceData(w) ==
    /\ writers[w].src = "flowing" /\ writers[w].dst = "open"
    /\ writers[w].sent < Len(writers[w].data)
    /\ writers' = [writers EXCEPT ![w] = PipeOnData(@)]
    /\ lastOp' = StreamEvent /\ ret' = Void /\ calls' = <<>>
    /\ UNCHANGED bucket

SourceEnd(w) ==
    /\ writers[w].src = "flowing" /\ writers[w].dst = "open"
    /\ writers[w].sent = Len(writers[w].data)
    /\ writers' = [writers EXCEPT ![w] = PipeOnEnd(@)]
    /\ lastOp' = StreamEvent /\ ret' = Void /\ calls' = <<>>
    /\ UNCHANGED bucket

SourceError(w) ==
    /\ writers[w].src = "flowing" /\ writers[w].dst = "open"
    /\ writers' = [writers EXCEPT ![w] = PipeOnSourceError(@)]
    /\ lastOp' = StreamEvent /\ ret' = Void /\ calls' = <<>>
    /\ UNCHANGED bucket

DestFinish(w) ==
    /\ writers[w].dst = "ending"
    /\ bucket' = PutObject(bucket, writers[w].path, writers[w].received)
    /\ writers' = [Touch(writers, writers[w].path) EXCEPT ![w] = OnFinish(writers[w])]
    /\ lastOp' = StreamEvent /\ ret' = Void /\ calls' = <<>>

DestError(w) ==
    /\ writers[w].dst \in {"open", "ending"}
    /\ writers' = [writers EXCEPT ![w] = OnDestError(@)]
    /\ lastOp' = StreamEvent /\ ret' = Void /\ calls' = <<>>
    /\ UNCHANGED bucket

\* a channel handed out by createWriteStream, written and ended by its caller,
\* finishes: the object at its key is replaced
ChannelFinish(path, data) ==
    /\ bucket' = PutObject(bucket, path, data)
    /\ writers' = Touch(writers, path)
    /\ lastOp' = StreamEvent /\ ret' = Void /\ calls' = <<>>

(***************************************************************************)
(* readFile, unlink                                                        *)
(***************************************************************************)
\* download(), then buffer.toString(encoding) only for encoding === 'utf8'
readFile(b, path, encoding) ==
    IF ~ObjectExists(b, path) THEN Failure("NotFound")
    ELSE IF encoding = "utf8" THEN String(BufferToStringUtf8(ObjectData(b, path)))
    ELSE Buffer(ObjectData(b, path))

ReadFile(path, encoding) ==
    /\ lastOp' = [op |-> "readFile", path |-> path, encoding |-> encoding]
    /\ ret' = readFile(bucket, path, encoding)
    /\ calls' = <<Request("download", path, NoArgument)>>
    /\ UNCHANGED <<bucket, writers>>

Unlink(path) ==
    /\ lastOp' = [op |-> "unlink", path |-> path]
    /\ calls' = <<Request("delete", path, NoArgument)>>
    /\ IF ObjectExists(bucket, path)
       THEN /\ bucket' = DeleteObject(bucket, path)
            /\ writers' = Touch(writers, path)
            /\ ret' = Void
       ELSE /\ ret' = Failure("NotFound")
            /\ UNCHANGED <<bucket, writers>>

StreamInit ==
    /\ bucket = <<>>
    /\ writers = [w \in Writers |-> NoWriter]
    /\ lastOp = NoOp
    /\ ret = Void
    /\ calls = <<>>

StreamNext ==
    \/ \E w \in Writers, path \in StreamPaths, options \in StreamOptions,
          data \in Payloads : WriteStreamToFile(w, path, options, data)
    \/ \E w \in Writers : SourceData(w)
    \/ \E w \in Writers : SourceEnd(w)
    \/ \E w \in Writers : SourceError(w)
    \/ \E w \in Writers : DestFinish(w)
    \/ \E w \in Writers : DestError(w)
    \/ \E path \in StreamPaths, data \in Payloads : ChannelFinish(path, data)
    \/ \E path \in StreamPaths, encoding \in Encodings : ReadFile(path, encoding)
    \/ \E path \in StreamPaths : Unlink(path)

Spec == StreamInit /\ [][StreamNext]_vars

\* the program's own steps are taken when they can be; that a source or an upload
\* fails, or that anyone calls the adapter again, is up to the environment
StreamFairness ==
    \A w \in Writers :
        /\ WF_vars(SourceData(w) \/ SourceEnd(w))
        /\ WF_vars(DestFinish(w))

FairSpec == Spec /\ StreamFairness

(***************************************************************************)
(* mkdir, readDir                                                          *)
(***************************************************************************)
MaxKeyLen == 3                   \* every key of up to this many characters
MaxObjects == 2                  \* objects in the bucket
Chars == {"a", "/"}
LongKeys == {<<"a", "/", "a", "/">>, <<"a", "/", "a", "/", "a">>}
\* object names are relative: none is empty or begins with the separator
DirKeys ==
    {k \in SeqUpTo(Chars, MaxKeyLen) : k # <<>> /\ Head(k) # "/"} \cup LongKeys
DirPaths ==
    {<<>>, <<"a">>, <<"a", "/">>, <<"/">>, <<"a", "a">>, <<"a", "/", "a">>,
     <<"a", "/", "a", "/">>}

StartsWith(s, prefix) ==
    /\ Len(prefix) <= Len(s)
    /\ SubSeq(s, 1, Len(prefix)) = prefix

\* s.substr(n)
Substr(s, n) == SubSeq(s, n + 1, Len(s))

\* path[path.length - 1] === '/' ? path : `${path}/`
DirPrefix(path) ==
    IF Len(path) > 0 /\ path[Len(path)] = "/" THEN path ELSE path \o <<"/">>

\* bucket.getFiles({prefix}): the objects whose key starts with prefix, as listed
GetFiles(b, prefix) == SelectSeq(b, LAMBDA o : StartsWith(o.name, prefix))

IsTruthyString(s) == s # <<>>

\* variant: without the filter
readDir_Unfiltered(b, path) ==
    LET files == GetFiles(b, DirPrefix(path))
    IN  [i \in DOMAIN files |-> Substr(files[i].name, Len(DirPrefix(path)))]

\* files.map(file => file.metadata.name.substr(path.length)).filter(s => s)
readDir(b, path) ==
    LET prefix == DirPrefix(path)
        files == GetFiles(b, prefix)
        names == [i \in DOMAIN files |-> Substr(files[i].name, Len(prefix))]
    IN  SelectSeq(names, IsTruthyString)

ReadDir(path) ==
    /\ lastOp' = [op |-> "readDir", path |-> path]
    /\ ret' = Array(readDir(bucket, path))
    /\ calls' = <<Request("getFiles", WholeBucket, [prefix |-> DirPrefix(path)])>>
    /\ UNCHANGED <<bucket, writers>>

\* variant: a directory placeholder object is saved
Mkdir_Placeholder(path) ==
    /\ lastOp' = [op |-> "mkdir", path |-> path]
    /\ ret' = Void
    /\ calls' = <<Request("save", DirPrefix(path), NoArgument)>>
    /\ bucket' = PutObject(bucket, DirPrefix(path), <<>>)
    /\ UNCHANGED writers

\* return Promise.resolve()
Mkdir(path) ==
    /\ lastOp' = [op |-> "mkdir", path |-> path]
    /\ ret' = Void
    /\ calls' = <<>>
    /\ UNCHANGED <<bucket, writers>>

Listings ==
    {l \in SeqUpTo(DirKeys, MaxObjects) :
        \A i, j \in DOMAIN l : i # j => l[i] # l[j]}

DirInit ==
    /\ bucket \in {[i \in DOMAIN l |-> [name |-> l[i], data |-> <<>>]] : l \in Listings}
    /\ writers = [w \in Writers |-> NoWriter]
    /\ lastOp = NoOp
    /\ ret = Void
    /\ calls = <<>>

DirNext ==
    \/ \E path \in DirPaths : Mkdir(path)
    \/ \E path \in DirPaths : ReadDir(path)
    \/ \E path \in Names(bucket) \cup {<<"a">>} : Unlink(path)

DirSpec == DirInit /\ [][DirNext]_vars

(***************************************************************************)
(* Signed URLs                                                             *)
(***************************************************************************)
DigitChars == <<"0", "1", "2", "3", "4", "5", "6", "7", "8", "9">>
IsDigit(c) == \E d \in DOMAIN DigitChars : DigitChars[d] = c
DigitValue(c) == (CHOOSE d \in DOMAIN DigitChars : DigitChars[d] = c) - 1

RECURSIVE Pow10(_)
Pow10(n) == IF n = 0 THEN 1 ELSE 10 * Pow10(n - 1)

\* String(n).padStart(width, '0') of a natural number
PadStart(n, width) ==
    [i \in 1..width |-> DigitChars[((n \div Pow10(width - i)) % 10) + 1]]

\* instants, by their UTC fields; InvalidDate is new Date(NaN)
InvalidDate == [invalid |-> TRUE]
Years == {-1, 2024, 10000}
Months == {1, 12}
Days == {1, 2}
Hours == {0, 23}
ValidDates ==
    [year : Years, month : Months, day : Days, hour : Hours]
Dates == ValidDates \cup {InvalidDate}
UrlOptions ==
    {EmptyObject, [contentType |-> "image/png"], [contentType |-> ""]}
\* an options argument the caller left out
NoOptions == [undefined |-> TRUE]
MaybeUrlOptions == UrlOptions \cup {NoOptions}

\* the year of Date.prototype.toISOString: four digits for 0..9999, else a sign
\* and six digits
IsoYear(year) ==
    IF 0 <= year /\ year <= 9999 THEN PadStart(year, 4)
    ELSE IF year < 0 THEN <<"-">> \o PadStart(0 - year, 6)
    ELSE <<"+">> \o PadStart(year, 6)

\* Date.prototype.toISOString() of a valid date
toISOString(date) ==
    IsoYear(date.year) \o <<"-">> \o PadStart(date.month, 2) \o <<"-">>
        \o PadStart(date.day, 2) \o <<"T">> \o PadStart(date.hour, 2)
        \o <<":", "0", "0", ":", "0", "0", ".", "0", "0", "0", "Z">>

\* s.substring(0, n)
Substring0(s, n) == SubSeq(s, 1, IF n < Len(s) THEN n ELSE Len(s))

\* variant: without the truncation
DownloadDateStr_Full(validUntil) == toISOString(validUntil)

\* validUntil.toISOString().substring(0, 10)
DownloadDateStr(validUntil) == Substring0(toISOString(validUntil), 10)

\* the truthiness of an optional string
IsTruthy(v) == v # Undefined /\ v # Null /\ v # ""

\* options && options.contentType ? options.contentType : null
DownloadContentType(options) ==
    IF options # NoOptions /\ IsTruthy(Prop(options, "contentType"))
    THEN options.contentType ELSE Null

\* the config getUploadUrl hands to getSignedUrl
UploadUrlConfig(validUntil, opts) ==
    LET o == IF opts = NoOptions THEN EmptyObject ELSE opts    \* opts = opts || {}
    IN  [version |-> "v4", contentType |-> "video/mp4", action |-> "write",
         expires |-> validUntil]

\* the config getDownloadUrl hands to getSignedUrl
DownloadUrlConfig(validUntil, options) ==
    [action |-> "read", expires |-> DownloadDateStr(validUntil),
     contentType |-> DownloadContentType(options)]

\* the storage client's answer to getSignedUrl is opaque
SignedUrl(key, config) == [type |-> "SignedUrl", key |-> key, config |-> config]

GetUploadUrl(path, validUntil, opts) ==
    /\ lastOp' = [op |-> "getUploadUrl", path |-> path, validUntil |-> validUntil,
                  options |-> opts]
    /\ calls' = <<Request("getSignedUrl", path, UploadUrlConfig(validUntil, opts))>>
    /\ ret' = SignedUrl(path, UploadUrlConfig(validUntil, opts))
    /\ UNCHANGED <<bucket, writers>>

GetDownloadUrl(path, validUntil, options) ==
    /\ lastOp' = [op |-> "getDownloadUrl", path |-> path, validUntil |-> validUntil,
                  options |-> options]
    /\ IF validUntil = InvalidDate
       THEN \* toISOString throws before any request is made
            /\ calls' = <<>>
            /\ ret' = Failure("RangeError")
       ELSE /\ calls' = <<Request("getSignedUrl", path,
                                  DownloadUrlConfig(validUntil, options))>>
            /\ ret' = SignedUrl(path, DownloadUrlConfig(validUntil, options))
    /\ UNCHANGED <<bucket, writers>>

(***************************************************************************)
(* lstat, getMetadata                                                      *)
(***************************************************************************)
MaxSizeLen == 2                  \* longest size field drawn from SizeChars
SizeChars == {"0", "1", "x", "-", " "}
SizeStrings ==
    SeqUpTo(SizeChars, MaxSizeLen)
        \cup {<<"1", "0", "2", "4">>, <<"1", "2", "x", "1">>, <<" ", "-", "1", "2">>}
\* the metadata records the storage client may answer with
Metadatas == {EmptyObject} \cup {[size |-> s] : s \in SizeStrings}
MetadataResponses == Metadatas \cup {Failure("NotFound")}
IsFailure(v) == "type" \in DOMAIN v /\ v.type = "error"

Number(n) == [type |-> "number", value |-> n]
NotANumber == [type |-> "NaN"]

RECURSIVE SkipWhiteSpace(_)
SkipWhiteSpace(s) ==
    IF s # <<>> /\ Head(s) = " " THEN SkipWhiteSpace(Tail(s)) ELSE s

\* the digits s begins with, read as a decimal number on top of acc
RECURSIVE ReadDigits(_, _)
ReadDigits(s, acc) ==
    IF s # <<>> /\ IsDigit(Head(s))
    THEN ReadDigits(Tail(s), 10 * acc + DigitValue(Head(s)))
    ELSE acc

\* variant: Number(s) of a string, which tolerates no trailing characters
parseInt10_Strict(s) ==
    IF s # <<>> /\ \A i \in DOMAIN s : IsDigit(s[i]) THEN Number(ReadDigits(s, 0))
    ELSE NotANumber

\* parseInt(v, 10): leading white space is skipped, then an optional sign, then
\* the longest run of digits is read; NaN when there is none
parseInt10(s) ==
    LET t == SkipWhiteSpace(s)
        signed == t # <<>> /\ Head(t) \in {"-", "+"}
        body == IF signed THEN Tail(t) ELSE t
        magnitude == ReadDigits(body, 0)
    IN  IF body = <<>> \/ ~IsDigit(Head(body)) THEN NotANumber
        ELSE Number(IF signed /\ Head(t) = "-" THEN 0 - magnitude ELSE magnitude)

\* String(v) of the size field: a missing field reads as "undefined"
SizeText(metadata) ==
    IF "size" \in DOMAIN metadata THEN metadata.size
    ELSE <<"u", "n", "d", "e", "f", "i", "n", "e", "d">>

\* n || 0
OrZero(n) == IF n = NotANumber \/ n = Number(0) THEN 0 ELSE n.value

\* parseInt(metadata.size, 10) || 0
StatSize(metadata) == OrZero(parseInt10(SizeText(metadata)))

\* getMetadata: the first element of the storage client's answer, or its failure
getMetadata(response) == response

lstat(response) ==
    IF IsFailure(getMetadata(response)) THEN getMetadata(response)
    ELSE [size |-> StatSize(getMetadata(response))]

Lstat(path, response) ==
    /\ lastOp' = [op |-> "lstat", path |-> path, metadata |-> response]
    /\ calls' = <<Request("getMetadata", path, NoArgument)>>
    /\ ret' = lstat(response)
    /\ UNCHANGED <<bucket, writers>>

(***************************************************************************)
(* createUrl, generateTokenAndUrl                                          *)
(***************************************************************************)
UrlHead ==
    <<"h", "t", "t", "p", "s", ":", "/", "/", "f", "i", "r", "e",
      "b", "a", "s", "e", "s", "t", "o", "r", "a", "g", "e", ".",
      "g", "o", "o", "g", "l", "e", "a", "p", "i", "s", ".", "c",
      "o", "m", "/", "v", "0", "/", "b", "/">>
UrlObject == <<"/", "o", "/">>
UrlQuery ==
    <<"?", "a", "l", "t", "=", "m", "e", "d", "i", "a", "&", "t",
      "o", "k", "e", "n", "=">>

BucketNames == {<<"b", "k">>, <<"x">>}
UrlPaths == {<<"a">>, <<"a", " ", "b", "/", "c", ".", "m", "p", "4">>}
Tokens == {<<"t", "1">>, <<"t", "2">>}     \* what uuid() may return

UnreservedChars == {"a", "b", "c", "m", "p", "4", ".", "-", "_"}
\* the UTF-8 bytes of a reserved character, percent-encoded
PercentEncoded(c) ==
    IF c = " " THEN <<"%", "2", "0">>
    ELSE IF c = "/" THEN <<"%", "2", "F">>
    ELSE <<"%", "3", "F">>

RECURSIVE encodeURIComponent(_)
encodeURIComponent(s) ==
    IF s = <<>> THEN <<>>
    ELSE (IF Head(s) \in UnreservedChars THEN <<Head(s)>> ELSE PercentEncoded(Head(s)))
            \o encodeURIComponent(Tail(s))

\* the template literal of createUrl's body
UrlTemplate(bucketName, path, token) ==
    UrlHead \o bucketName \o UrlObject \o encodeURIComponent(path)
        \o UrlQuery \o token

\* the body evaluates the template as an expression statement and returns
\* nothing: the call's value is undefined
createUrl(bucketName, path, token) ==
    LET discarded == String(UrlTemplate(bucketName, path, token))
    IN  Void

\* { token, url: this.createUrl(bucket, path, token) } for the token uuid() gave
generateTokenAndUrl(bucketName, path, token) ==
    [token |-> token, url |-> createUrl(bucketName, path, token)]

CreateUrl(bucketName, path, token) ==
    /\ lastOp' = [op |-> "createUrl", bucket |-> bucketName, path |-> path,
                  token |-> token]
    /\ ret' = createUrl(bucketName, path, token)
    /\ calls' = <<>>
    /\ UNCHANGED <<bucket, writers>>

GenerateTokenAndUrl(bucketName, path, token) ==
    /\ lastOp' = [op |-> "generateTokenAndUrl", bucket |-> bucketName, path |-> path]
    /\ ret' = generateTokenAndUrl(bucketName, path, token)
    /\ calls' = <<>>
    /\ UNCHANGED <<bucket, writers>>

(***************************************************************************)
(* The request translations, one call at a time                            *)
(***************************************************************************)
ClientNext ==
    \/ \E path \in StreamPaths, opts \in WriteOptions : CreateWriteStream(path, opts)
    \/ \E w \in Writers, path \in StreamPaths, options \in WriteOptions :
          WriteStreamToFile(w, path, options, <<65>>)
    \/ \E path \in StreamPaths, validUntil \in Dates, opts \in MaybeUrlOptions :
          GetUploadUrl(path, validUntil, opts)
    \/ \E path \in StreamPaths, validUntil \in Dates, options \in MaybeUrlOptions :
          GetDownloadUrl(path, validUntil, options)
    \/ \E path \in StreamPaths, response \in MetadataResponses : Lstat(path, response)
    \/ \E bucketName \in BucketNames, path \in UrlPaths, token \in Tokens :
          CreateUrl(bucketName, path, token)
    \/ \E bucketName \in BucketNames, path \in UrlPaths, token \in Tokens :
          GenerateTokenAndUrl(bucketName, path, token)

ClientSpec == StreamInit /\ [][ClientNext]_vars

(***************************************************************************)
(* Properties: writeStreamToFile                                           *)
(***************************************************************************)
\* C1: the promise of writeStreamToFile is resolved only once the destination
\* has emitted 'finish'; while the destination is still open or ending (bytes
\* piped, nothing confirmed) the promise is pending.
C1_ResolvedOnlyAfterFinish ==
    \A w \in Writers :
        /\ writers[w].promise = "resolved" => writers[w].dst = "finished"
        /\ writers[w].dst \in {"open", "ending"} => writers[w].promise = "pending"

\* a call resolved after both chunks of its payload reached the destination
C1_Witness ==
    \E w \in Writers :
        /\ writers[w].promise = "resolved"
        /\ writers[w].dst = "finished"
        /\ Len(writers[w].received) >= 2

\* C2: once the source stream has emitted 'error', the promise is never resolved
\* and is eventually rejected.
C2_SourceErrorRejects ==
    \A w \in Writers :
        /\ [](writers[w].src = "errored" => writers[w].promise # "resolved")
        /\ (writers[w].src = "errored") ~> (writers[w].promise = "rejected")

\* C3: when a writeStreamToFile(p, b) has resolved and the object at p was not
\* written or unlinked since, readFile(p) without encoding returns the bytes b.
C3_RoundTrip ==
    \A w \in Writers :
        (writers[w].promise = "resolved" /\ writers[w].clean)
            => readFile(bucket, writers[w].path, Undefined) = Buffer(writers[w].data)

\* readFile just returned the two distinct bytes a resolved call had written
C3_Witness ==
    /\ lastOp.op = "readFile"
    /\ lastOp.encoding = Undefined
    /\ \E w \in Writers :
        /\ writers[w].promise = "resolved" /\ writers[w].clean
        /\ writers[w].path = lastOp.path
        /\ Len(writers[w].data) >= 2
        /\ writers[w].data[1] # writers[w].data[2]
        /\ ret = Buffer(writers[w].data)

(***************************************************************************)
(* Properties: mkdir, readDir                                              *)
(***************************************************************************)
\* C4: a mkdir step succeeds, issues no storage-client request, leaves the
\* bucket as it was, and readDir of every path returns after it what it
\* returned before it.
C4_MkdirNoEffect ==
    [][lastOp'.op = "mkdir" =>
        /\ ret' = Void
        /\ calls' = <<>>
        /\ bucket' = bucket
        /\ \A p \in DirPaths : readDir(bucket', p) = readDir(bucket, p)]_vars

\* mkdir(p) just ran on a non-empty bucket with no object under p/
C4_Witness ==
    /\ lastOp.op = "mkdir"
    /\ Len(bucket) >= 1
    /\ \A k \in Names(bucket) : ~StartsWith(k, lastOp.path \o <<"/">>)
    /\ Len(lastOp.path) >= 1 /\ lastOp.path[Len(lastOp.path)] # "/"
    /\ readDir(bucket, lastOp.path) = <<>>

\* the normalised prefix q: p if p ends with '/', else p + '/'
QueriedPrefix(p) ==
    IF p # <<>> /\ p[Len(p)] = "/" THEN p ELSE Append(p, "/")

\* the listing positions of the keys under q other than q itself
KeptPositions(b, q) ==
    {i \in DOMAIN b : StartsWith(b[i].name, q) /\ b[i].name # q}

\* r is, in listing order, the keys under q other than q, each without its
\* leading q
IsRelativeListing(r, b, q) ==
    LET kept == KeptPositions(b, q)
        nth(j) == CHOOSE i \in kept : Cardinality({k \in kept : k <= i}) = j
    IN  /\ Len(r) = Cardinality(kept)
        /\ \A j \in DOMAIN r : q \o r[j] = b[nth(j)].name

EndsWithSlash(p) == p # <<>> /\ p[Len(p)] = "/"

\* C5 (as amended): readDir(p) returns, in the store's listing order, the keys
\* under q other than q itself, each with one leading q removed; no returned
\* name is empty; readDir(p) and readDir(p + '/') agree for p without a
\* trailing '/'.  A returned name may itself begin with q.
C5_ReadDirListing ==
    lastOp.op = "readDir" =>
        LET q == QueriedPrefix(lastOp.path)
        IN  /\ IsRelativeListing(ret.items, bucket, q)
            /\ \A j \in DOMAIN ret.items : ret.items[j] # <<>>
            /\ ~EndsWithSlash(lastOp.path)
                 => ret.items = readDir(bucket, Append(lastOp.path, "/"))

\* readDir(p), p without trailing '/', just returned a name while the key p/
\* itself is in the bucket
C5_Witness ==
    /\ lastOp.op = "readDir"
    /\ ~EndsWithSlash(lastOp.path)
    /\ QueriedPrefix(lastOp.path) \in Names(bucket)
    /\ Len(bucket) >= 2
    /\ Len(ret.items) >= 1

\* C5 (as stated): the listing of C5, and moreover no returned name is empty or
\* still begins with the prefix q.
C5_NoNameCarriesPrefix ==
    lastOp.op = "readDir" =>
        LET q == QueriedPrefix(lastOp.path)
        IN  /\ IsRelativeListing(ret.items, bucket, q)
            /\ \A j \in DOMAIN ret.items :
                  ret.items[j] # <<>> /\ ~StartsWith(ret.items[j], q)
            /\ ~EndsWithSlash(lastOp.path)
                 => ret.items = readDir(bucket, Append(lastOp.path, "/"))

(***************************************************************************)
(* Properties: the write channel's options                                 *)
(***************************************************************************)
OpensChannel == lastOp.op \in {"createWriteStream", "writeStreamToFile"}

\* the one request is createWriteStream on the call's path, and it carries every
\* option of the caller other than resumable unchanged
ChannelPassesOptions ==
    /\ Len(calls) = 1
    /\ calls[1].request = "createWriteStream"
    /\ calls[1].key = lastOp.path
    /\ DOMAIN calls[1].arg = DOMAIN lastOp.options \cup {"resumable"}
    /\ \A k \in DOMAIN lastOp.options \ {"resumable"} :
            calls[1].arg[k] = lastOp.options[k]
    /\ lastOp.op = "writeStreamToFile"
         => \E w \in Writers : writers[w].channel = calls[1].arg

C7_UploadUrlConfig ==
    lastOp.op = "getUploadUrl" =>
        /\ Len(calls) = 1
        /\ calls[1].request = "getSignedUrl"
        /\ calls[1].key = lastOp.path
        /\ calls[1].arg.action = "write"
        /\ calls[1].arg.expires = lastOp.validUntil
        /\ calls[1].arg.contentType =
              (IF "contentType" \in DOMAIN lastOp.options
               THEN lastOp.options.contentType ELSE "video/mp4")

\* sub occurs in s
Contains(s, sub) ==
    \E i \in 0..(Len(s) - Len(sub)) : SubSeq(s, i + 1, i + Len(sub)) = sub

\* C8: createUrl returns a string that contains bucket and token verbatim and
\* the percent-encoded path, and generateTokenAndUrl returns {token, url} with
\* url = createUrl(bucket, path, token).
C8_CreateUrlString ==
    /\ lastOp.op = "createUrl" =>
        /\ ret.type = "string"
        /\ Contains(ret.chars, lastOp.bucket)
        /\ Contains(ret.chars, lastOp.token)
        /\ Contains(ret.chars, encodeURIComponent(lastOp.path))
    /\ lastOp.op = "generateTokenAndUrl" =>
        ret.url = createUrl(lastOp.bucket, lastOp.path, ret.token)

SameDate(d, e) == d.year = e.year /\ d.month = e.month /\ d.day = e.day

\* YYYY-MM-DD of a date
CalendarDate(d) ==
    PadStart(d.year, 4) \o <<"-">> \o PadStart(d.month, 2) \o <<"-">>
        \o PadStart(d.day, 2)

FourDigitYear(d) == 0 <= d.year /\ d.year <= 9999

\* the request getDownloadUrl made reads the object of the call's path
IsReadRequest ==
    /\ Len(calls) = 1
    /\ calls[1].request = "getSignedUrl"
    /\ calls[1].key = lastOp.path
    /\ calls[1].arg.action = "read"
    /\ calls[1].arg.contentType =
          (IF lastOp.options # NoOptions
              /\ "contentType" \in DOMAIN lastOp.options
              /\ lastOp.options.contentType # ""
           THEN lastOp.options.contentType ELSE Null)

\* C9 (as amended): for a valid validUntil, getDownloadUrl requests a signed
\* URL with action 'read' whose expiry is the first ten characters of
\* validUntil's UTC ISO-8601 text.  For years 0000..9999 that is the date
\* YYYY-MM-DD: instants of one date give the same expiry, instants of different
\* dates give different expiries.  For other years it is the sign, the
\* six-digit year and the month, so the day of the month is lost.  The
\* content-type is options.contentType when that is a non-empty string, else
\* unconstrained.  For an invalid Date the call fails and requests nothing.
C9_DownloadExpiryIsIsoPrefix ==
    lastOp.op = "getDownloadUrl" =>
        LET v == lastOp.validUntil
        IN  IF v = InvalidDate
            THEN calls = <<>> /\ ret = Failure("RangeError")
            ELSE /\ IsReadRequest
                 /\ FourDigitYear(v) =>
                      /\ calls[1].arg.expires = CalendarDate(v)
                      /\ \A e \in ValidDates :
                            FourDigitYear(e) =>
                               (SameDate(v, e)
                                  <=> calls[1].arg.expires = DownloadDateStr(e))
                 /\ ~FourDigitYear(v) =>
                      /\ Len(calls[1].arg.expires) = 10
                      /\ calls[1].arg.expires[1] = (IF v.year < 0 THEN "-" ELSE "+")
                      /\ SubSeq(calls[1].arg.expires, 9, 10) = PadStart(v.month, 2)
                      /\ \A e \in ValidDates :
                            (e.year = v.year /\ e.month = v.month)
                               => calls[1].arg.expires = DownloadDateStr(e)

\* getDownloadUrl ran for 23:00 on 2024-12-02 and asked for expiry 2024-12-02
C9_Witness ==
    /\ lastOp.op = "getDownloadUrl"
    /\ lastOp.validUntil = [year |-> 2024, month |-> 12, day |-> 2, hour |-> 23]
    /\ Len(calls) = 1
    /\ calls[1].arg.expires = <<"2", "0", "2", "4", "-", "1", "2", "-", "0", "2">>

\* C9 (as stated): for every valid validUntil the expiry depends on the UTC
\* calendar date alone: the same for two instants of one date, different for
\* instants of different dates.
C9_ExpiryDependsOnDateOnly ==
    (lastOp.op = "getDownloadUrl" /\ lastOp.validUntil # InvalidDate) =>
        /\ IsReadRequest
        /\ \A e \in ValidDates :
              SameDate(lastOp.validUntil, e)
                 <=> calls[1].arg.expires = DownloadDateStr(e)

(***************************************************************************)
(* Properties: lstat                                                       *)
(***************************************************************************)
AllDigits(s) == s # <<>> /\ \A i \in DOMAIN s : IsDigit(s[i])

\* the number a string of digits denotes
RECURSIVE DecimalValue(_)
DecimalValue(s) ==
    IF s = <<>> THEN 0
    ELSE DigitValue(s[Len(s)]) + 10 * DecimalValue(SubSeq(s, 1, Len(s) - 1))

\* how many characters of s, from position from on, are c-like
LeadingCount(s, from, Like(_)) ==
    CHOOSE k \in 0..(Len(s) - from + 1) :
        /\ \A i \in from..(from + k - 1) : Like(s[i])
        /\ (from + k <= Len(s) => ~Like(s[from + k]))

IsSpace(c) == c = " "

\* what lstat makes of a size field: the leading spaces and one sign are passed
\* over, the digits that follow are the size; without such digits it is 0
SizeOfField(s) ==
    LET spaces == LeadingCount(s, 1, IsSpace)
        signed == spaces < Len(s) /\ s[spaces + 1] \in {"-", "+"}
        first == spaces + (IF signed THEN 2 ELSE 1)
        digits == LeadingCount(s, first, IsDigit)
        value == DecimalValue(SubSeq(s, first, first + digits - 1))
    IN  IF signed /\ s[spaces + 1] = "-" THEN 0 - value ELSE value

\* C10 (as amended): when the metadata is fetched, lstat returns {size: n}
\* without failing: n is the value of the size field when that is a string of
\* decimal digits; n is 0 when the field is missing or does not begin, after
\* optional white space and an optional sign, with a digit; otherwise n is the
\* (signed) value of the digits it begins with, whatever follows them ("12x1"
\* gives 12).  lstat fails exactly when fetching the metadata fails.
C10_StatSizeIsLeadingDigits ==
    lastOp.op = "lstat" =>
        IF IsFailure(lastOp.metadata) THEN ret = lastOp.metadata
        ELSE /\ DOMAIN ret = {"size"}
             /\ "size" \notin DOMAIN lastOp.metadata => ret.size = 0
             /\ "size" \in DOMAIN lastOp.metadata =>
                  /\ ret.size = SizeOfField(lastOp.metadata.size)
                  /\ AllDigits(lastOp.metadata.size)
                       => ret.size = DecimalValue(lastOp.metadata.size)

\* lstat ran on metadata whose size is "1024" and returned 1024
C10_Witness ==
    /\ lastOp.op = "lstat"
    /\ ~IsFailure(lastOp.metadata)
    /\ "size" \in DOMAIN lastOp.metadata
    /\ lastOp.metadata.size = <<"1", "0", "2", "4">>
    /\ ret = [size |-> 1024]

\* a field that holds a letter is not a number
HasLetter(s) == \E i \in DOMAIN s : s[i] = "x"

\* C10 (as stated): n is the value of a decimal size field, and 0 when the field
\* is missing or non-numeric; lstat fails only when the metadata fetch fails.
C10_NonNumericSizeIsZero ==
    lastOp.op = "lstat" =>
        IF IsFailure(lastOp.metadata) THEN ret = lastOp.metadata
        ELSE /\ DOMAIN ret = {"size"}
             /\ "size" \notin DOMAIN lastOp.metadata => ret.size = 0
             /\ "size" \in DOMAIN lastOp.metadata =>
                  /\ AllDigits(lastOp.metadata.size)
                       => ret.size = DecimalValue(lastOp.metadata.size)
                  /\ HasLetter(lastOp.metadata.size) => ret.size = 0

=============================================================================
